---- MODULE Spec2Model ----
(***************************************************************************)
(* why-is-node-running (src/index.js): an async_hooks registry of the      *)
(* asynchronous resources created since the module was loaded, and the     *)
(* report whyIsNodeRunning writes about the ones still keeping the event   *)
(* loop alive.                                                             *)
(*                                                                         *)
(* Strings whose prefix or length the code inspects (file names, formatted *)
(* locations, source lines) are sequences of one-character strings.  Type  *)
(* tags, which the code only compares and prints, are TLA+ strings.        *)
(***************************************************************************)
EXTENDS Integers, Sequences, FiniteSets, TLC

\* ------------------------------------------------------------------ bounds
\* Async ids the host hands out are 1..MaxId (an id is free again once its
\* resource is destroyed); at most MaxObj resource objects are ever created.
MaxId == 2
MaxObj == 2

Ids == 1..MaxId
Objs == 1..MaxObj

\* ----------------------------------------------------------------- strings
\* 'node:' and 'file://', the two prefixes the code tests with startsWith.
NodePrefix == <<"n", "o", "d", "e", ":">>
FilePrefix == <<"f", "i", "l", "e", ":", "/", "/">>

\* String.prototype.startsWith
StartsWith(s, p) == Len(s) >= Len(p) /\ SubSeq(s, 1, Len(p)) = p

\* A file name that is null: CallSite.getFileName() of a frame with no script.
\* No string is a one-element sequence holding a longer string.
Null == <<"null">>

\* File names of the frames the model's call stacks are made of.
ServerJs == <<"/", "a", "/", "s", ".", "j", "s">>                  \* /a/s.js
ModUrl == FilePrefix \o <<"/", "a", "/", "m", ".", "j", "s">>        \* file:///a/m.js
OutJs == <<"/", "b", "/", "x", ".", "j", "s">>                     \* /b/x.js
NodeNet == NodePrefix \o <<"n", "e", "t">>                          \* node:net
DotsJs == <<"/", "a", "/", ".", ".", "f", "/", "x", ".", "j", "s">> \* /a/..f/x.js
IndexUrl == FilePrefix \o <<"/", "n", "/", "i", ".", "j", "s">>      \* file:///n/i.js

\* A native call site, as V8 hands it to Error.prepareStackTrace.
CallSite(file, line) == [getFileName |-> file, getLineNumber |-> line, getColumnNumber |-> 1]

\* The call sites of captureStackTraces itself and of the init callback that
\* calls it (lines 116 and 20 of this module, loaded as an ES module).
CaptureSite == CallSite(IndexUrl, 116)
InitSite == CallSite(IndexUrl, 20)

\* Call stacks of the code that creates a resource, innermost frame first:
\* one with a missing file, a host-internal frame, a line past the end of its
\* file, a readable line and a file in a directory named '..f'; one with
\* internal frames only; an empty one.
MixedStack == <<CallSite(OutJs, 12), CallSite(NodeNet, 5), CallSite(ModUrl, 3),
                CallSite(ServerJs, 2), CallSite(DotsJs, 1)>>
InternalStack == <<CallSite(NodeNet, 5), CallSite(Null, 0)>>
CallerStacks == {MixedStack, InternalStack, << >>}

\* ------------------------------------------------------------------- types
\* IGNORED_TYPES with its last entry lost.
IGNORED_TYPES_short == {"TIMERWRAP", "PROMISE", "PerformanceObserver"}

IGNORED_TYPES == {"TIMERWRAP", "PROMISE", "PerformanceObserver", "RANDOMBYTESREQUEST"}

\* The resources the host creates: a type tag, and whether the resource object
\* has a hasRef() method (a Timeout has one, an FSReqCallback has none).  The
\* first two are of types the registry tracks; the others are the four types
\* that async_hooks reports and the registry is meant to ignore.
TrackedKinds == {[type |-> "Timeout", hasRef |-> TRUE],
                 [type |-> "FSREQCALLBACK", hasRef |-> FALSE]}
NoiseKinds == {[type |-> "TIMERWRAP", hasRef |-> FALSE],
               [type |-> "PROMISE", hasRef |-> FALSE],
               [type |-> "PerformanceObserver", hasRef |-> FALSE],
               [type |-> "RANDOMBYTESREQUEST", hasRef |-> FALSE]}

\* What the stack capture of one init call does: it returns the frames of the
\* caller's stack, it throws between installing and restoring the formatter
\* (lines 116-118), or it returns undefined because V8 captured no stack
\* (target.stack is undefined).
Captures == {[outcome |-> "throws", callerStack |-> << >>],
             [outcome |-> "undefined", callerStack |-> << >>]}
            \cup {[outcome |-> "ok", callerStack |-> s] : s \in CallerStacks}

\* The code that creates resources of the tracked types: a timer is armed by
\* user code or by code of the host, a file request is issued by user code or
\* with no frame below init.
StacksOf(type) ==
    IF type = "Timeout" THEN {MixedStack, InternalStack} ELSE {MixedStack, << >>}

\* The init calls of the tracked types: a kind of resource, and what the stack
\* capture of the call does.
Creations ==
    {c \in [kind : TrackedKinds, capture : Captures] :
        c.capture.outcome = "ok" => c.capture.callerStack \in StacksOf(c.kind.type)}

\* Values of the global Error.prepareStackTrace.
Formatters == {"undefined", "user", "prepareStackTrace"}

\* ------------------------------------------------------------------- state
VARIABLES
    asyncResources,   \* the Map of line 13: entries in insertion order
    hookEnabled,      \* whether the async hook delivers notifications
    errorPrepare,     \* Error.prepareStackTrace
    live,             \* host: the async ids in use, as long as the hook is enabled
    heap,             \* host: resource object -> its state
    nextObj,          \* host: the next resource object to be created
    created,          \* ids with a tracked init delivered and no destroy since
    log,              \* the lines the latest step wrote to the logger
    fsRead,           \* the file system the latest step read
    firstRegistry,    \* the registry as the first inspection found it
    lastDestroyed     \* id -> the record the latest destroy(id) deleted, if any

vars == <<asyncResources, hookEnabled, errorPrepare, live, heap, nextObj,
          created, log, fsRead, firstRegistry, lastDestroyed>>

\* A resource object a record of the registry points at is "plain" (it has no
\* hasRef method), "refd" or "unrefd" (its hasRef() returns true or false), or
\* "collected".  The state of an object no record points at is never read: the
\* model keeps it as "unobserved".
ObjStates == {"unobserved", "plain", "refd", "unrefd", "collected"}

\* ---------------------------------------------------------------- the Map
\* A Map that puts a new key first.
MapSet_front(m, key, value) ==
    IF \E i \in 1..Len(m) : m[i].key = key
    THEN [i \in 1..Len(m) |-> IF m[i].key = key THEN [key |-> key, value |-> value] ELSE m[i]]
    ELSE <<[key |-> key, value |-> value]>> \o m

\* Map.prototype.set: a new key is appended, an existing key keeps its place.
MapSet(m, key, value) ==
    IF \E i \in 1..Len(m) : m[i].key = key
    THEN [i \in 1..Len(m) |-> IF m[i].key = key THEN [key |-> key, value |-> value] ELSE m[i]]
    ELSE Append(m, [key |-> key, value |-> value])

\* Map.prototype.delete
MapDelete(m, key) == SelectSeq(m, LAMBDA e : e.key # key)

\* Array.from(map.values())
MapValues(m) == [i \in 1..Len(m) |-> m[i].value]

MapKeys(m) == {m[i].key : i \in 1..Len(m)}

\* Map.prototype.get of a key the Map has.
MapGet(m, key) == m[CHOOSE i \in 1..Len(m) : m[i].key = key].value

\* ----------------------------------------------------------- stack capture
\* prepareStackTrace (lines 103-108): each call site becomes {lineNumber, fileName}.
prepareStackTrace(stackTraces) ==
    [i \in 1..Len(stackTraces) |->
        [lineNumber |-> stackTraces[i].getLineNumber,
         fileName |-> stackTraces[i].getFileName]]

\* Error.captureStackTrace(target, captureStackTraces): the frames below the
\* topmost call of captureStackTraces.
FramesBelowCapture(native) ==
    LET at == CHOOSE i \in 1..Len(native) : native[i] = CaptureSite
                  /\ \A j \in 1..(i - 1) : native[j] # CaptureSite
    IN SubSeq(native, at + 1, Len(native))

\* captureStackTraces (lines 111-122), called with Error.prepareStackTrace = prepare
\* on the native stack `native`; `outcome` is what the capture step does.
captureStackTraces(outcome, native, prepare) ==
    LET original == prepare
    IN CASE outcome = "throws" ->
              [threw |-> TRUE, defined |-> FALSE, traces |-> << >>,
               prepare |-> "prepareStackTrace"]
         [] outcome = "undefined" ->
              [threw |-> FALSE, defined |-> FALSE, traces |-> << >>,
               prepare |-> original]
         [] OTHER ->
              [threw |-> FALSE, defined |-> TRUE,
               traces |-> prepareStackTrace(FramesBelowCapture(native)),
               prepare |-> original]

\* Array.prototype.slice(1)
Slice1(a) == IF Len(a) = 0 THEN << >> ELSE Tail(a)

\* ------------------------------------------------------------------- hooks
\* hook.init (lines 15-27): the registry and Error.prepareStackTrace after
\* init(asyncId, type, _, resource), and the exception it throws to the host:
\* the one of the capture, or the TypeError of undefined.slice(1).
hook_init(asyncId, type, resource, capture) ==
    IF type \in IGNORED_TYPES
    THEN [map |-> asyncResources, prepare |-> errorPrepare, raised |-> "none"]
    ELSE LET c == captureStackTraces(capture.outcome,
                                     <<CaptureSite, InitSite>> \o capture.callerStack,
                                     errorPrepare)
         IN IF c.threw
            THEN [map |-> asyncResources, prepare |-> c.prepare, raised |-> "RangeError"]
            ELSE IF ~c.defined
            THEN [map |-> asyncResources, prepare |-> c.prepare, raised |-> "TypeError"]
            ELSE [map |-> MapSet(asyncResources, asyncId,
                                 [type |-> type, resourceRef |-> resource,
                                  stacks |-> Slice1(c.traces)]),
                  prepare |-> c.prepare, raised |-> "none"]

\* A destroy callback that leaves the record where it is.
hook_destroy_keep(asyncId) == asyncResources

\* hook.destroy (lines 28-30)
hook_destroy(asyncId) == MapDelete(asyncResources, asyncId)

\* ------------------------------------------------------------ path helpers
Slash == "/"
DotDot == <<".", ".">>

\* process.cwd()
Cwd == <<"/", "a">>

\* The segments of a path: the non-empty pieces between slashes.
RECURSIVE Segments(_)
Segments(path) ==
    IF Len(path) = 0 THEN << >>
    ELSE IF Head(path) = Slash THEN Segments(Tail(path))
    ELSE LET rest == Tail(path)
             nextSlash == IF \E i \in 1..Len(rest) : rest[i] = Slash
                          THEN CHOOSE i \in 1..Len(rest) :
                                   rest[i] = Slash /\ \A j \in 1..(i - 1) : rest[j] # Slash
                          ELSE Len(rest) + 1
         IN <<<<Head(path)>> \o SubSeq(rest, 1, nextSlash - 1)>>
            \o Segments(SubSeq(rest, nextSlash, Len(rest)))

\* Segments joined by slashes.
RECURSIVE JoinSegments(_)
JoinSegments(segs) ==
    IF Len(segs) = 0 THEN << >>
    ELSE IF Len(segs) = 1 THEN segs[1]
    ELSE segs[1] \o <<Slash>> \o JoinSegments(Tail(segs))

\* path.resolve: '.' and '..' segments applied, left to right.
RECURSIVE ResolveSegments(_, _)
ResolveSegments(done, segs) ==
    IF Len(segs) = 0 THEN done
    ELSE IF Head(segs) = <<".">> THEN ResolveSegments(done, Tail(segs))
    ELSE IF Head(segs) = DotDot
         THEN ResolveSegments(IF Len(done) = 0 THEN done
                              ELSE SubSeq(done, 1, Len(done) - 1), Tail(segs))
    ELSE ResolveSegments(Append(done, Head(segs)), Tail(segs))

\* path.resolve(path): a relative path is resolved against the working directory.
PathResolve(path) ==
    IF Len(path) > 0 /\ Head(path) = Slash
    THEN ResolveSegments(<< >>, Segments(path))
    ELSE ResolveSegments(<< >>, Segments(Cwd) \o Segments(path))

\* The number of leading segments two resolved paths share.
RECURSIVE CommonSegments(_, _)
CommonSegments(a, b) ==
    IF Len(a) = 0 \/ Len(b) = 0 \/ Head(a) # Head(b) THEN 0
    ELSE 1 + CommonSegments(Tail(a), Tail(b))

\* path.relative(from, to) of node:path (POSIX): one '..' for each segment of
\* `from` below the common directory, then the rest of `to`.
PathRelative(from, to) ==
    LET f == PathResolve(from)
        t == PathResolve(to)
        common == CommonSegments(f, t)
    IN JoinSegments([i \in 1..(Len(f) - common) |-> DotDot]
                    \o SubSeq(t, common + 1, Len(t)))

\* relative(from, to) as the report calls it, from the working directory to the
\* file of a frame: path.relative is a function of its arguments alone, and
\* its results for the files of the model's frames are worked out once.
KnownPaths ==
    {IF StartsWith(f.getFileName, FilePrefix)
     THEN SubSeq(f.getFileName, Len(FilePrefix) + 1, Len(f.getFileName))
     ELSE f.getFileName : f \in UNION {{st[i] : i \in 1..Len(st)} : st \in CallerStacks}}
RelativePaths == {[to |-> p, path |-> PathRelative(Cwd, p)] : p \in KnownPaths}
relative(from, to) ==
    IF from = Cwd /\ to \in KnownPaths
    THEN (CHOOSE e \in RelativePaths : e.to = to).path
    ELSE PathRelative(from, to)

\* Number.prototype.toString of a line number.
RECURSIVE NumberToString(_)
NumberToString(n) ==
    LET digit == <<"0", "1", "2", "3", "4", "5", "6", "7", "8", "9">>
    IN IF n < 10 THEN <<digit[n + 1]>>
       ELSE NumberToString(n \div 10) \o <<digit[(n % 10) + 1]>>

\* ' '.repeat(n)
Spaces(n) == [i \in 1..n |-> " "]

\* ------------------------------------------------------------- file system
\* A file system maps the paths of the model's source files to their text;
\* readFileSync throws for a path whose text is NoFile.
NoFile == <<"ENOENT">>
ServerPath == ServerJs                                             \* /a/s.js
ModPath == <<"/", "a", "/", "m", ".", "j", "s">>                   \* /a/m.js
Paths == {ServerPath, ModPath, OutJs}

\* Every file missing, and: /a/s.js = "x\n  y " (two lines),
\* /a/m.js = "a\r\nb" (two lines), /b/x.js missing.
EmptyFs == [p \in Paths |-> NoFile]
SourceFs == [p \in Paths |->
               IF p = ServerPath THEN <<"x", "\n", " ", " ", "y", " ">>
               ELSE IF p = ModPath THEN <<"a", "\r", "\n", "b">>
               ELSE NoFile]
FileSystems == {SourceFs}

\* String.prototype.split(/\n|\r\n/)
RECURSIVE SplitLines(_, _)
SplitLines(line, text) ==
    IF Len(text) = 0 THEN <<line>>
    ELSE IF Head(text) = "\n" THEN <<line>> \o SplitLines(<< >>, Tail(text))
    ELSE IF Len(text) >= 2 /\ text[1] = "\r" /\ text[2] = "\n"
         THEN <<line>> \o SplitLines(<< >>, Tail(Tail(text)))
    ELSE SplitLines(Append(line, Head(text)), Tail(text))

WhiteSpace == {" ", "\t", "\n", "\r"}

\* String.prototype.trim
RECURSIVE Trim(_)
Trim(str) ==
    IF Len(str) = 0 THEN str
    ELSE IF Head(str) \in WhiteSpace THEN Trim(Tail(str))
    ELSE IF str[Len(str)] \in WhiteSpace THEN Trim(SubSeq(str, 1, Len(str) - 1))
    ELSE str

\* ------------------------------------------------------------------ report
\* normalizeFilePath (lines 99-101); fileURLToPath of a file:///path URL is /path.
normalizeFilePath(filePath) ==
    IF StartsWith(filePath, FilePrefix)
    THEN SubSeq(filePath, Len(FilePrefix) + 1, Len(filePath))
    ELSE filePath

\* formatFilePath (lines 92-97)
formatFilePath(filePath) ==
    LET absolutePath == normalizeFilePath(filePath)
        relativePath == relative(Cwd, absolutePath)
    IN IF StartsWith(relativePath, DotDot) THEN absolutePath ELSE relativePath

\* formatLocation (lines 87-90)
formatLocation(stack) ==
    formatFilePath(stack.fileName) \o <<":">> \o NumberToString(stack.lineNumber)

\* The lines the logger receives.
SummaryLine(n) == [kind |-> "summary", count |-> n]
BlankLine == [kind |-> "blank"]
HeaderLine(type) == [kind |-> "header", type |-> type]
UnknownLine == [kind |-> "unknown"]
\* `${location}${padding} - ${line}`, and `${location}${padding}` (no excerpt)
FrameLine(location, padding, line) ==
    [kind |-> "frame", location |-> location, padding |-> padding,
     excerpt |-> TRUE, text |-> line]
BareFrameLine(location, padding) ==
    [kind |-> "frame", location |-> location, padding |-> padding,
     excerpt |-> FALSE, text |-> << >>]

\* An exception thrown to the caller of whyIsNodeRunning: nothing is logged
\* after it.
ThrowLine(error) == [kind |-> "throw", error |-> error]

UntilThrow(lines) ==
    IF \E i \in 1..Len(lines) : lines[i].kind = "throw"
    THEN SubSeq(lines, 1, CHOOSE i \in 1..Len(lines) :
                              lines[i].kind = "throw"
                              /\ \A j \in 1..(i - 1) : lines[j].kind # "throw")
    ELSE lines

\* Lines 77-78: the trimmed source line of a frame, or the exception thrown by
\* readFileSync (no such file) or by .trim() of undefined (no such line).
ReadSourceLine(stack, fs) ==
    LET path == normalizeFilePath(stack.fileName)
    IN IF path \notin DOMAIN fs \/ fs[path] = NoFile
       THEN [threw |-> TRUE, line |-> << >>]
       ELSE LET lines == SplitLines(<< >>, fs[path])
            IN IF stack.lineNumber - 1 \in 0..(Len(lines) - 1)
               THEN [threw |-> FALSE, line |-> Trim(lines[stack.lineNumber])]
               ELSE [threw |-> TRUE, line |-> << >>]

\* The loop body without its try/catch: the exception reaches the caller.
PrintFrame_noCatch(stack, maxLength, fs) ==
    LET location == formatLocation(stack)
        padding == Spaces(maxLength - Len(location))
        read == ReadSourceLine(stack, fs)
    IN IF read.threw
       THEN <<ThrowLine("Error")>>
       ELSE <<FrameLine(location, padding, read.line)>>

\* The body of the loop of lines 72-84: the line logged for one frame; the
\* catch of line 81 logs the location alone.
PrintFrame(stack, maxLength, fs) ==
    LET location == formatLocation(stack)
        padding == Spaces(maxLength - Len(location))
        read == ReadSourceLine(stack, fs)
    IN IF read.threw
       THEN <<BareFrameLine(location, padding)>>
       ELSE <<FrameLine(location, padding, read.line)>>

\* The frames printStacks displays (lines 57-60).
DisplayedFrame(stack) ==
    stack.fileName # Null /\ ~StartsWith(stack.fileName, NodePrefix)

Max(a, b) == IF a >= b THEN a ELSE b

\* The reduce stopping after the first frame.
MaxLocationLength_first(length, stacks) ==
    IF Len(stacks) = 0 THEN length
    ELSE Max(length, Len(formatLocation(Head(stacks))))

\* stacks.reduce((length, stack) => Math.max(length, formatLocation(stack).length), 0)
RECURSIVE MaxLocationLength(_, _)
MaxLocationLength(length, stacks) ==
    IF Len(stacks) = 0 THEN length
    ELSE MaxLocationLength(Max(length, Len(formatLocation(Head(stacks)))), Tail(stacks))

\* The loop of line 72 running from the last frame to the first.
PrintFrames_reversed(stacks, maxLength, fs) ==
    [i \in 1..Len(stacks) |-> PrintFrame(stacks[Len(stacks) + 1 - i], maxLength, fs)[1]]

\* The loop of lines 72-84: the lines of the frames, in the order of the array.
RECURSIVE PrintFrames(_, _, _)
PrintFrames(stacks, maxLength, fs) ==
    IF Len(stacks) = 0 THEN << >>
    ELSE PrintFrame(Head(stacks), maxLength, fs) \o PrintFrames(Tail(stacks), maxLength, fs)

\* printStacks testing the captured stack, not the filtered one, for emptiness.
printStacks_rawTest(asyncResource, fs) ==
    LET stacks == SelectSeq(asyncResource.stacks, DisplayedFrame)
    IN <<BlankLine, HeaderLine(asyncResource.type)>>
       \o IF Len(asyncResource.stacks) = 0
          THEN <<UnknownLine>>
          ELSE PrintFrames(stacks, MaxLocationLength(0, stacks), fs)

\* printStacks (lines 56-85): the lines logged for one record.
printStacks(asyncResource, fs) ==
    LET stacks == SelectSeq(asyncResource.stacks, DisplayedFrame)
    IN <<BlankLine, HeaderLine(asyncResource.type)>>
       \o IF Len(stacks) = 0
          THEN <<UnknownLine>>
          ELSE PrintFrames(stacks, MaxLocationLength(0, stacks), fs)

\* The filter without the hasRef test, with a missing hasRef taken for "not
\* ref'd", and without the test of deref().
IsActive_noHasRef(asyncResource, h) == h[asyncResource.resourceRef] # "collected"

IsActive_strict(asyncResource, h) == h[asyncResource.resourceRef] = "refd"

IsActive_noDeref(asyncResource, h) == h[asyncResource.resourceRef] # "unrefd"

\* The filter of lines 39-47: the WeakRef still resolves, and the resource has
\* no hasRef method or its hasRef() returns true.
IsActive(asyncResource, h) ==
    IF h[asyncResource.resourceRef] = "collected"
    THEN FALSE
    ELSE IF h[asyncResource.resourceRef] \in {"refd", "unrefd"}
    THEN h[asyncResource.resourceRef] = "refd"
    ELSE TRUE

\* A filter that loses the first of the entries it should keep.
ActiveEntries_skipFirst(m, h) ==
    LET kept == SelectSeq(m, LAMBDA e : IsActive(e.value, h))
    IN IF Len(kept) = 0 THEN kept ELSE Tail(kept)

\* The entries of the registry whose values pass the filter, in Map order.
ActiveEntries(m, h) == SelectSeq(m, LAMBDA e : IsActive(e.value, h))

RECURSIVE PrintAll(_, _)
PrintAll(resources, fs) ==
    IF Len(resources) = 0 THEN << >>
    ELSE printStacks(Head(resources), fs) \o PrintAll(Tail(resources), fs)

\* whyIsNodeRunning counting the registry instead of the filtered records.
whyIsNodeRunning_countAll(m, h, fs) ==
    LET activeAsyncResources == MapValues(ActiveEntries(m, h))
    IN UntilThrow(<<SummaryLine(Len(m))>> \o PrintAll(activeAsyncResources, fs))

\* whyIsNodeRunning (lines 35-54): the lines written to the logger.
whyIsNodeRunning(m, h, fs) ==
    LET activeAsyncResources == MapValues(ActiveEntries(m, h))
    IN UntilThrow(<<SummaryLine(Len(activeAsyncResources))>>
                  \o PrintAll(activeAsyncResources, fs))

\* A step that is no inspection writes nothing to a logger and reads no file.
NoReport == log' = << >> /\ fsRead' = EmptyFs

\* ------------------------------------------------------------ initial state
\* The module is loaded: the registry is empty and the hook enabled (line 33).
Init ==
    /\ asyncResources = << >>
    /\ hookEnabled = TRUE
    /\ errorPrepare = "undefined"
    /\ live = {}
    /\ heap = [o \in Objs |-> "unobserved"]
    /\ nextObj = 1
    /\ created = {}
    /\ log = << >>
    /\ fsRead = EmptyFs
    /\ firstRegistry = << >>
    /\ lastDestroyed = [id \in Ids |-> << >>]

\* ----------------------------------------------------------------- actions
\* Whether a WeakRef of registry m points at resource object o.
Referenced(m, o) == \E i \in 1..Len(m) : m[i].value.resourceRef = o

\* Heap h as the model keeps it with registry m.
Observed(h, m) == [o \in Objs |-> IF Referenced(m, o) THEN h[o] ELSE "unobserved"]

\* The host creates a resource under a free id while the hook is enabled and
\* calls init.
HostCreate(id, kind, capture) ==
    /\ hookEnabled
    /\ id \notin live
    /\ nextObj <= MaxObj
    /\ LET r == hook_init(id, kind.type, nextObj, capture)
       IN /\ asyncResources' = r.map
          /\ errorPrepare' = r.prepare
          /\ heap' = Observed([heap EXCEPT ![nextObj] = IF kind.hasRef THEN "refd" ELSE "plain"],
                              r.map)
    /\ created' = IF kind \in TrackedKinds THEN created \cup {id} ELSE created
    /\ live' = live \cup {id}
    /\ nextObj' = nextObj + 1
    /\ NoReport
    /\ UNCHANGED <<hookEnabled, firstRegistry, lastDestroyed>>

\* The host creates a resource after hook.disable(): init is not called, and
\* no record will ever point at the new object.
HostCreateUntracked(kind) ==
    /\ ~hookEnabled
    /\ nextObj <= MaxObj
    /\ nextObj' = nextObj + 1
    /\ NoReport
    /\ UNCHANGED <<asyncResources, hookEnabled, errorPrepare, live, heap, created,
                   firstRegistry, lastDestroyed>>

\* The host destroys a resource while the hook is enabled and calls destroy.
HostDestroy(id) ==
    /\ hookEnabled
    /\ id \in live
    /\ asyncResources' = hook_destroy(id)
    /\ heap' = Observed(heap, hook_destroy(id))
    /\ created' = created \ {id}
    /\ live' = live \ {id}
    /\ lastDestroyed' = IF id \in MapKeys(asyncResources)
                        THEN [lastDestroyed EXCEPT ![id] = <<MapGet(asyncResources, id)>>]
                        ELSE lastDestroyed
    /\ NoReport
    /\ UNCHANGED <<hookEnabled, errorPrepare, nextObj, firstRegistry>>

\* The host destroys a resource after hook.disable(): destroy is not called,
\* and nothing of the program changes.
HostDestroyUntracked(id) ==
    /\ ~hookEnabled
    /\ NoReport
    /\ UNCHANGED <<asyncResources, hookEnabled, errorPrepare, live, heap, nextObj,
                   created, firstRegistry, lastDestroyed>>

\* resource.ref() / resource.unref() of a resource that has hasRef().
ToggleRef(o) ==
    /\ Referenced(asyncResources, o)
    /\ heap[o] \in {"refd", "unrefd"}
    /\ heap' = [heap EXCEPT ![o] = IF heap[o] = "refd" THEN "unrefd" ELSE "refd"]
    /\ NoReport
    /\ UNCHANGED <<asyncResources, hookEnabled, errorPrepare, live, nextObj, created,
                   firstRegistry, lastDestroyed>>

\* The garbage collector reclaims a resource object: WeakRef.deref() gives
\* undefined from now on.
Collect(o) ==
    /\ Referenced(asyncResources, o)
    /\ heap[o] \in {"plain", "refd", "unrefd"}
    /\ heap' = [heap EXCEPT ![o] = "collected"]
    /\ NoReport
    /\ UNCHANGED <<asyncResources, hookEnabled, errorPrepare, live, nextObj, created,
                   firstRegistry, lastDestroyed>>

\* Other code of the process assigns Error.prepareStackTrace.
SetPrepareStackTrace(f) ==
    /\ f \in {"undefined", "user"}
    /\ f # errorPrepare
    /\ errorPrepare' = f
    /\ NoReport
    /\ UNCHANGED <<asyncResources, hookEnabled, live, heap, nextObj, created,
                   firstRegistry, lastDestroyed>>

\* whyIsNodeRunning without its hook.disable().
Inspect_noDisable(fs) ==
    /\ log' = whyIsNodeRunning(asyncResources, heap, fs)
    /\ fsRead' = fs
    /\ firstRegistry' = IF hookEnabled THEN asyncResources ELSE firstRegistry
    /\ UNCHANGED <<asyncResources, hookEnabled, errorPrepare, live, heap, nextObj, created,
                   lastDestroyed>>

\* The program calls whyIsNodeRunning(logger): hook.disable(), then the report.
Inspect(fs) ==
    /\ hookEnabled' = FALSE
    /\ log' = whyIsNodeRunning(asyncResources, heap, fs)
    /\ fsRead' = fs
    /\ firstRegistry' = IF hookEnabled THEN asyncResources ELSE firstRegistry
    /\ UNCHANGED <<asyncResources, errorPrepare, live, heap, nextObj, created, lastDestroyed>>

Next ==
    \/ \E id \in Ids, c \in Creations : HostCreate(id, c.kind, c.capture)
    \/ \E id \in Ids, kind \in NoiseKinds :
          HostCreate(id, kind, [outcome |-> "ok", callerStack |-> MixedStack])
    \/ \E kind \in TrackedKinds \cup NoiseKinds : HostCreateUntracked(kind)
    \/ \E id \in Ids : HostDestroy(id)
    \/ \E id \in Ids : HostDestroyUntracked(id)
    \/ \E o \in Objs : ToggleRef(o)
    \/ \E o \in Objs : Collect(o)
    \/ \E f \in Formatters : SetPrepareStackTrace(f)
    \/ \E fs \in FileSystems : Inspect(fs)

Spec == Init /\ [][Next]_vars

\* ================================================================== claims
\* The records of the registry, and the state of their resources.
Records == MapValues(asyncResources)
StateOf(r) == heap[r.resourceRef]

\* The state right after an inspection: the summary line is always written.
JustInspected == log # << >>

\* The records that keep the process running: the resource was not collected
\* and is not unref'd.  Resource objects are numbered in creation order.
KeepingObjs == {Records[i].resourceRef : i \in {j \in 1..Len(Records) :
                                                 StateOf(Records[j]) \in {"plain", "refd"}}}
RecordOf(o) == Records[CHOOSE i \in 1..Len(Records) : Records[i].resourceRef = o]
NthKeeping(k) ==
    RecordOf(CHOOSE o \in KeepingObjs : Cardinality({q \in KeepingObjs : q < o}) = k - 1)
NKeeping == Cardinality(KeepingObjs)

CountOf(state) == Cardinality({i \in 1..Len(Records) : StateOf(Records[i]) = state})
LinesOf(kind) == {i \in 1..Len(log) : log[i].kind = kind}
NoThrow == LinesOf("throw") = {}

\* The k-th block of the report: from its blank line to the next one.
BlockStart(k) == CHOOSE i \in LinesOf("blank") :
                     Cardinality({j \in LinesOf("blank") : j < i}) = k - 1
BlockEnd(k) == IF k < Cardinality(LinesOf("blank")) THEN BlockStart(k + 1) - 1 ELSE Len(log)
Block(k) == SubSeq(log, BlockStart(k), BlockEnd(k))

\* ------------------------------------------------------------------- C1
\* C1: the key set of the registry is exactly the set of ids with a tracked
\* init notification delivered and no destroy notification since.
CexC1 == MapKeys(asyncResources) = created

\* ------------------------------------------------------------------- C2
\* C2: an init notification of an ignored type leaves the key set of the
\* registry as it was, so does the destroy notification of such a resource
\* (an id in use that no tracked init was delivered for), and an inspection
\* with only such resources in use reports 0 handles and nothing else.
ThmC2 ==
    /\ [][ /\ \A id \in Ids, kind \in NoiseKinds, capture \in Captures :
                HostCreate(id, kind, capture)
                    => MapKeys(asyncResources') = MapKeys(asyncResources)
           /\ \A id \in Ids :
                (HostDestroy(id) /\ id \notin created)
                    => MapKeys(asyncResources') = MapKeys(asyncResources) ]_vars
    /\ []((JustInspected /\ created = {}) => log = <<SummaryLine(0)>>)

WitC2 ==
    /\ JustInspected
    /\ live # {}
    /\ created = {}
    /\ asyncResources = << >>
    /\ log[1].count = 0

\* ------------------------------------------------------------------- C3
\* C3: an inspection leaves the registry as it was and the hook disabled; once
\* the hook is disabled it stays disabled and no step changes the registry; and
\* what a later inspection reports is the report of the registry the first
\* inspection found.
ThmC3 ==
    /\ [][ /\ log' # << >> => (asyncResources' = asyncResources /\ ~hookEnabled')
           /\ ~hookEnabled => (~hookEnabled' /\ asyncResources' = asyncResources) ]_vars
    /\ [](~hookEnabled => asyncResources = firstRegistry)
    /\ [](JustInspected => /\ ~hookEnabled
                           /\ log = whyIsNodeRunning(firstRegistry, heap, fsRead)
                           /\ Cardinality(LinesOf("header")) <= Len(firstRegistry))

\* An inspection found a record it filtered out, resources were created after
\* the first inspection, and the record is still there.
WitC3 ==
    /\ JustInspected
    /\ Len(asyncResources) = 1
    /\ StateOf(Records[1]) = "collected"
    /\ nextObj > MaxObj
    /\ log[1].count = 0

\* ------------------------------------------------------------------- C4
\* C4: a record whose resource resolves and whose hasRef() is false is not in
\* the active set: the count and the blocks of the report leave it out.
ThmC4 ==
    JustInspected =>
        /\ log[1].count <= Len(Records) - CountOf("unrefd")
        /\ Cardinality(LinesOf("header")) <= Len(Records) - CountOf("unrefd")
        /\ \A k \in 1..Cardinality(LinesOf("header")) :
              Block(k)[2].type = NthKeeping(k).type /\ StateOf(NthKeeping(k)) # "unrefd"

WitC4 ==
    /\ JustInspected
    /\ Len(Records) = 2
    /\ StateOf(Records[1]) = "unrefd"
    /\ StateOf(Records[2]) = "refd"
    /\ log[1].count = 1

\* ------------------------------------------------------------------- C5
\* C5: a record whose resource resolves and has no hasRef method is in the
\* active set: it is counted and its block is in the report.
ThmC5 ==
    JustInspected =>
        /\ log[1].count >= CountOf("plain")
        /\ \A i \in 1..Len(Records) :
              StateOf(Records[i]) = "plain"
                  => \E k \in 1..Cardinality(LinesOf("blank")) :
                        Block(k) = printStacks(Records[i], fsRead)

WitC5 ==
    /\ JustInspected
    /\ \E i \in 1..Len(Records) : StateOf(Records[i]) = "plain"
    /\ CountOf("unrefd") = 1
    /\ log[1].count = 1

\* ------------------------------------------------------------------- C6
\* C6: a record whose resource was collected, with no destroy delivered for
\* it, is not in the active set; the report leaves it out and the inspection
\* throws nothing.
ThmC6 ==
    JustInspected =>
        /\ NoThrow
        /\ log[1].kind = "summary"
        /\ log[1].count <= Len(Records) - CountOf("collected")
        /\ Cardinality(LinesOf("header")) <= Len(Records) - CountOf("collected")
        /\ \A k \in 1..Cardinality(LinesOf("header")) :
              Block(k)[2].type = NthKeeping(k).type /\ StateOf(NthKeeping(k)) # "collected"

WitC6 ==
    /\ JustInspected
    /\ Len(Records) = 2
    /\ MapKeys(asyncResources) \subseteq live
    /\ StateOf(Records[1]) = "collected"
    /\ StateOf(Records[2]) = "plain"
    /\ log[1].count = 1

\* ------------------------------------------------------------------- C7
\* C7: the report is the summary followed by one block for each active record,
\* in the order in which the records were created.
RECURSIVE BlocksFrom(_)
BlocksFrom(k) ==
    IF k > NKeeping THEN << >>
    ELSE printStacks(NthKeeping(k), fsRead) \o BlocksFrom(k + 1)

ThmC8 ==
    JustInspected =>
        /\ log[1] = SummaryLine(NKeeping)
        /\ LinesOf("summary") = {1}
        /\ Cardinality(LinesOf("blank")) = NKeeping
        /\ Cardinality(LinesOf("header")) = NKeeping
        /\ \A i \in LinesOf("blank") : i < Len(log) /\ log[i + 1].kind = "header"
        /\ \A i \in LinesOf("header") : i > 1 /\ log[i - 1].kind = "blank"

WitC8 ==
    /\ JustInspected
    /\ Len(Records) = 2
    /\ CountOf("collected") = 1
    /\ log[1] = SummaryLine(1)
    /\ Cardinality(LinesOf("header")) = 1

\* ------------------------------------------------------------------- C9
\* The frames of a record the report displays, and whether the source line of
\* a frame can be read: the file exists and has at least lineNumber lines.
Displayed(r) ==
    SelectSeq(r.stacks, LAMBDA f : f.fileName # Null
                                   /\ SubSeq(f.fileName, 1, 5) # <<"n", "o", "d", "e", ":">>)
FileOf(f) ==
    IF SubSeq(f.fileName, 1, 7) = <<"f", "i", "l", "e", ":", "/", "/">>
    THEN SubSeq(f.fileName, 8, Len(f.fileName))
    ELSE f.fileName
LineCount(text) == 1 + Cardinality({i \in 1..Len(text) : text[i] = "\n"})
Readable(f) ==
    /\ FileOf(f) \in DOMAIN fsRead
    /\ fsRead[FileOf(f)] # NoFile
    /\ f.lineNumber \in 1..LineCount(fsRead[FileOf(f)])

\* C9: the inspection throws nothing, every active record has its block and
\* every displayed frame its one line, in order; the line of a frame whose
\* source line cannot be read is the padded location with no excerpt, the line
\* of any other frame has one.
ThmC9 ==
    JustInspected =>
        /\ NoThrow
        /\ Cardinality(LinesOf("blank")) = NKeeping
        /\ \A k \in 1..NKeeping :
              LET frames == Displayed(NthKeeping(k))
              IN Len(frames) > 0 =>
                    /\ Len(Block(k)) = 2 + Len(frames)
                    /\ \A j \in 1..Len(frames) :
                          LET line == Block(k)[2 + j]
                          IN /\ line.kind = "frame"
                             /\ line.location = formatLocation(frames[j])
                             /\ \A c \in 1..Len(line.padding) : line.padding[c] = " "
                             /\ line.excerpt = Readable(frames[j])
                             /\ ~Readable(frames[j]) => line.text = << >>

\* A frame whose file is missing is followed by a frame with its excerpt, and
\* the block by the block of a later record.
WitC9 ==
    /\ JustInspected
    /\ NKeeping = 2
    /\ \E i, j \in LinesOf("frame") :
          /\ i < j
          /\ j < BlockStart(2)
          /\ ~log[i].excerpt
          /\ log[j].excerpt
          /\ log[j].text = <<"y">>
    /\ Len(Block(2)) > 2

\* ------------------------------------------------------------------ C10
\* C10: an init call that captures a stack leaves Error.prepareStackTrace with
\* the value it had before the call, whatever the capture does.
CexC10 ==
    [][\A id \in Ids, kind \in TrackedKinds, capture \in Captures :
          HostCreate(id, kind, capture) => errorPrepare' = errorPrepare]_vars

\* ------------------------------------------------------------------ C11
\* C11: no init call throws to the host: whatever the stack capture of a
\* resource of a tracked type does, init returns normally.
CexC11 ==
    [][\A id \in Ids, kind \in TrackedKinds, capture \in Captures :
          HostCreate(id, kind, capture)
              => hook_init(id, kind.type, nextObj, capture).raised = "none"]_vars

\* ------------------------------------------------------------------ C12
\* Whether every frame of the captured stack of a record has a null file name
\* or a file name that begins with 'node:' (an empty stack has no other frame).
OnlyInternal(r) ==
    \A i \in 1..Len(r.stacks) :
        \/ r.stacks[i].fileName = Null
        \/ /\ Len(r.stacks[i].fileName) >= 5
           /\ SubSeq(r.stacks[i].fileName, 1, 5) = <<"n", "o", "d", "e", ":">>

\* C12: the block of an active record is its blank line, its header and the
\* one line '(unknown stack trace)' exactly when every frame of its captured
\* stack is internal; any other block has no such line and at least one frame
\* line.
ThmC12 ==
    JustInspected =>
        /\ Cardinality(LinesOf("blank")) = NKeeping
        /\ \A k \in 1..NKeeping :
              /\ OnlyInternal(NthKeeping(k))
                    <=> Block(k) = <<BlankLine, HeaderLine(NthKeeping(k).type), UnknownLine>>
              /\ OnlyInternal(NthKeeping(k))
                    <=> (\E i \in 1..Len(Block(k)) : Block(k)[i].kind = "unknown")
              /\ OnlyInternal(NthKeeping(k))
                    <=> (\A i \in 1..Len(Block(k)) : Block(k)[i].kind # "frame")

\* One active record has a captured stack of internal frames only, another an
\* empty one, and both blocks end with the unknown line.
WitC12 ==
    /\ JustInspected
    /\ NKeeping = 2
    /\ \E k \in 1..2 : Len(NthKeeping(k).stacks) = 2 /\ OnlyInternal(NthKeeping(k))
    /\ \E k \in 1..2 : Len(NthKeeping(k).stacks) = 0
    /\ LinesOf("unknown") = {4, 7}

\* ------------------------------------------------------------------ C13
\* The frame lines of the k-th block, and the width of one: the length of what
\* it has before the separator, the location and its padding.
FrameLinesOf(k) == SelectSeq(Block(k), LAMBDA l : l.kind = "frame")
Width(l) == Len(l.location) + Len(l.padding)

\* C13: in every block all frame lines have the same width, which is the length
\* of the longest location of the block: no location is longer than the width
\* and one of them fills it with no padding.
ThmC13 ==
    JustInspected =>
        \A k \in 1..Cardinality(LinesOf("blank")) :
            LET lines == FrameLinesOf(k)
            IN /\ \A i, j \in 1..Len(lines) : Width(lines[i]) = Width(lines[j])
               /\ \A i, j \in 1..Len(lines) : Len(lines[j].location) <= Width(lines[i])
               /\ Len(lines) > 0 =>
                     \E j \in 1..Len(lines) :
                         /\ Len(lines[j].padding) = 0
                         /\ \A i \in 1..Len(lines) :
                               Len(lines[i].location) <= Len(lines[j].location)

\* A block whose locations have three different lengths, the longest one
\* coming last.
WitC13 ==
    /\ JustInspected
    /\ \E k \in 1..Cardinality(LinesOf("blank")) :
          LET lines == FrameLinesOf(k)
          IN /\ Len(lines) = 4
             /\ Cardinality({Len(lines[i].location) : i \in 1..4}) = 3
             /\ Len(lines[1].padding) > 0
             /\ Len(lines[1].padding) < Len(lines[2].padding)
             /\ Len(lines[4].padding) = 0

\* ------------------------------------------------------------------ C14
\* The positions, in the captured stack of a record, of the frames with a file
\* name that is not null and does not begin with 'node:', and the j-th of them.
Kept(r) ==
    {i \in 1..Len(r.stacks) :
        /\ r.stacks[i].fileName # Null
        /\ ~(/\ Len(r.stacks[i].fileName) >= 5
             /\ SubSeq(r.stacks[i].fileName, 1, 5) = <<"n", "o", "d", "e", ":">>)}
NthKept(r, j) == CHOOSE i \in Kept(r) : Cardinality({q \in Kept(r) : q < i}) = j - 1

\* C14: the frame lines of the block of an active record follow its header
\* with nothing in between, there are as many as the captured stack has kept
\* frames, and the j-th line shows the location of the j-th kept frame, in the
\* order of the captured stack.
ThmC14 ==
    JustInspected =>
        /\ Cardinality(LinesOf("blank")) = NKeeping
        /\ \A k \in 1..NKeeping :
              LET r == NthKeeping(k)
                  lines == FrameLinesOf(k)
              IN /\ Len(lines) = Cardinality(Kept(r))
                 /\ Len(lines) > 0 => Len(Block(k)) = 2 + Len(lines)
                 /\ \A j \in 1..Len(lines) :
                       /\ lines[j].location = formatLocation(r.stacks[NthKept(r, j)])
                       /\ Len(Block(k)) >= 2 + j => Block(k)[2 + j] = lines[j]

\* A captured stack of five frames, the second of them internal: four frame
\* lines, the second one of the third frame.
WitC14 ==
    /\ JustInspected
    /\ NKeeping >= 1
    /\ Len(NthKeeping(1).stacks) = 5
    /\ Kept(NthKeeping(1)) = {1, 3, 4, 5}
    /\ Len(FrameLinesOf(1)) = 4
    /\ FrameLinesOf(1)[2].location = <<"m", ".", "j", "s", ":", "3">>
    /\ FrameLinesOf(1)[1].location # FrameLinesOf(1)[4].location

UnderCwd(path) ==
    /\ Len(Segments(path)) > Len(Segments(Cwd))
    /\ SubSeq(Segments(path), 1, Len(Segments(Cwd))) = Segments(Cwd)
BelowCwd(path) ==
    JoinSegments(SubSeq(Segments(path), Len(Segments(Cwd)) + 1, Len(Segments(path))))

\* C16: the location of every frame line shows the path of the frame's file
\* relative to the working directory when the file lies under it, whatever its
\* first segment below it begins with, and the absolute path when it does not.
CexC16 ==
    JustInspected =>
        \A k \in 1..NKeeping :
            \A j \in 1..Len(FrameLinesOf(k)) :
                LET f == NthKeeping(k).stacks[NthKept(NthKeeping(k), j)]
                IN FrameLinesOf(k)[j].location =
                       (IF UnderCwd(FileOf(f)) THEN BelowCwd(FileOf(f)) ELSE FileOf(f))
                       \o <<":">> \o NumberToString(f.lineNumber)

\* ------------------------------------------------------------------ C17
\* The entries of the registry under one id.
EntriesOf(m, id) == {i \in 1..Len(m) : m[i].key = id}

\* C17: a destroy leaves no record under its id; an init that returns stores,
\* under its id, one record of the type, the resource and the stack of this
\* call and leaves the other records alone; so no id has two records, a record
\* under an id that a destroy has emptied before is of a later resource, no
\* record points at a destroyed resource, and the blocks of a report are the
\* blocks of the records the registry holds.
ThmC17 ==
    /\ [][ /\ \A id \in Ids : HostDestroy(id) => EntriesOf(asyncResources', id) = {}
           /\ \A id \in Ids, kind \in TrackedKinds, capture \in Captures :
                (HostCreate(id, kind, capture) /\ capture.outcome = "ok") =>
                    /\ Cardinality(EntriesOf(asyncResources', id)) = 1
                    /\ MapGet(asyncResources', id) =
                           [type |-> kind.type, resourceRef |-> nextObj,
                            stacks |-> prepareStackTrace(capture.callerStack)]
                    /\ MapDelete(asyncResources', id) = MapDelete(asyncResources, id) ]_vars
    /\ [](\A id \in Ids :
            /\ Cardinality(EntriesOf(asyncResources, id)) <= 1
            /\ lastDestroyed[id] # << >> =>
                  /\ ~Referenced(asyncResources, lastDestroyed[id][1].resourceRef)
                  /\ id \in MapKeys(asyncResources) =>
                        MapGet(asyncResources, id).resourceRef
                            > lastDestroyed[id][1].resourceRef)
    /\ [](JustInspected =>
            /\ Cardinality(LinesOf("blank")) = NKeeping
            /\ \A k \in 1..NKeeping : Block(k) = printStacks(NthKeeping(k), fsRead))

\* An id is in use a second time, for a resource of another type created with
\* another stack, and the report shows the block of that resource alone.
WitC17 ==
    /\ JustInspected
    /\ \E id \in Ids :
          /\ lastDestroyed[id] # << >>
          /\ id \in MapKeys(asyncResources)
          /\ asyncResources = <<[key |-> id, value |-> MapGet(asyncResources, id)]>>
          /\ MapGet(asyncResources, id).type # lastDestroyed[id][1].type
          /\ MapGet(asyncResources, id).stacks # lastDestroyed[id][1].stacks
          /\ MapGet(asyncResources, id).resourceRef # lastDestroyed[id][1].resourceRef
          /\ Tail(log) = printStacks(MapGet(asyncResources, id), fsRead)
          /\ Tail(log) # printStacks(lastDestroyed[id][1], fsRead)

====
